---------------------------- MODULE Spec2Model ----------------------------
(***************************************************************************)
(* A model of the two artifacts of the repository slice:                   *)
(*                                                                         *)
(*   - the PopupManager of the modal cookbook page                         *)
(*     (packages/docs/src/routes/docs/cookbook/modal/index.mdx): a signal  *)
(*     holding at most one {Component, props} value, the show/hide API     *)
(*     published through PopupManagerContext, and the component's view;    *)
(*   - the joke command (packages/qwik/src/cli/joke/run-joke-command.ts).  *)
(*                                                                         *)
(* The two artifacts do not interact, so each has its own specification    *)
(* over the same variables: Spec drives the popup manager and leaves the   *)
(* joke variables alone, JokeSpec / JokeFairSpec drive the joke command.   *)
(***************************************************************************)
EXTENDS Naturals, Sequences, FiniteSets

VARIABLES
    modal,      \* the signal of PopupManager: {} (undefined) or {[Component, props]}
    rendered,   \* the children of the fragment PopupManager returned last
    pending,    \* show/hide calls issued whose promise has not resolved yet (oldest first)
    lastIssued, \* history: <<>>, then <<[call, behind]>>: the call issued last and
                \* the number of calls in flight when it was issued
    settled,    \* history: the last HistLen calls whose body has run (oldest first)
    everShown,  \* history: some show body has run
    jokes,      \* the fixed joke list getRandomJoke draws from
    stdout,     \* the notes the latest runJokeCommand call wrote
    jokeStatus, \* "idle" before the first call, then how the latest call's promise settled
    returned,   \* history: the indices of the entries getRandomJoke has returned
    printed     \* history: every note written so far

popupVars == <<modal, rendered, pending, lastIssued, settled, everShown>>
jokeVars == <<jokes, stdout, jokeStatus, returned, printed>>
vars == <<modal, rendered, pending, lastIssued, settled, everShown,
          jokes, stdout, jokeStatus, returned, printed>>

----------------------------------------------------------------------------
(* Bounds of the model. *)

\* calls that may be in flight at once
MaxPending == 2
\* settled calls the history remembers
HistLen == 3
\* longest joke list Init draws
MaxJokes == 3

----------------------------------------------------------------------------
(* The popup manager: values. *)

\* Components that can be handed to show.
Components == {"PopupExample", "OtherPopup"}

\* Property bags: sets of <<key, value>> pairs with distinct keys. The first is
\* the bag of the cookbook's example; the second has fewer keys.
PropBags ==
    { {<<"salutation", "Hello">>, <<"name", "World">>},
      {<<"salutation", "Bye">>} }

\* The value show stores in the signal.
Popup(c, p) == [Component |-> c, props |-> p]

\* useSignal() without an initial value: undefined.
Undefined == {}

ShowCall(c, p) == [op |-> "show", Component |-> c, props |-> p]
HideCall == [op |-> "hide", Component |-> "", props |-> {}]

\* A rendered node.
Node(tag, class, props, children) ==
    [tag |-> tag, class |-> class, props |-> props, children |-> children]

SlotNode == Node("Slot", "", {}, <<>>)

\* <div class="modal"><x.Component {...x.props} /></div>
OverlayNode(x) ==
    Node("div", "modal", {}, <<Node(x.Component, "", x.props, <<>>)>>)

\* Faulty variant of Render: a ternary in place of &&, so the overlay takes
\* the place of the slotted content.
Render_ternary(m) ==
    IF m # Undefined THEN <<OverlayNode(CHOOSE x \in m : TRUE)>> ELSE <<SlotNode>>

\* The fragment PopupManager returns: the slot, then the overlay when the
\* signal holds a value.
Render(m) ==
    <<SlotNode>> \o (IF m # Undefined THEN <<OverlayNode(CHOOSE x \in m : TRUE)>> ELSE <<>>)

----------------------------------------------------------------------------
(* The popup manager: operations. *)

\* component$ body up to the first render.
PopupInit ==
    /\ modal = Undefined
    /\ rendered = Render(Undefined)
    /\ pending = <<>>
    /\ lastIssued = <<>>
    /\ settled = <<>>
    /\ everShown = FALSE

\* Faulty variant of show: the new props are spread over the props of the
\* popup shown before ({ ...modal.value?.props, ...props }).
show_merge(c, p) ==
    modal' = {Popup(c, p \cup {kv \in UNION {x.props : x \in modal} : kv[1] \notin {q[1] : q \in p}})}

\* Faulty variant of show: a popup already shown is kept (first writer wins).
show_firstWins(c, p) == modal' = IF modal = Undefined THEN {Popup(c, p)} ELSE modal

\* Faulty variant of show: the new popup is stacked on those already shown.
show_stack(c, p) == modal' = modal \cup {Popup(c, p)}

\* Faulty variant of show: the write is put off (setTimeout) past the moment
\* the promise resolves.
show_late(c, p) == modal' = modal

\* show: modal.value = { Component: component, props }
show(c, p) == modal' = {Popup(c, p)}

\* Faulty variant of hide: the signal is left as it is.
hide_keep == modal' = modal

\* Faulty variant of hide: a toggle, which shows the example popup when
\* nothing is shown.
hide_toggle ==
    modal' = IF modal = Undefined
             THEN {Popup("PopupExample", {<<"salutation", "Hello">>, <<"name", "World">>})}
             ELSE Undefined

\* hide: modal.value = undefined
hide == modal' = Undefined

\* A consumer calls popupManager.show(c, p): the call is in flight.
invokeShow(c, p) ==
    /\ Len(pending) < MaxPending
    /\ pending' = Append(pending, ShowCall(c, p))
    /\ lastIssued' = <<[call |-> ShowCall(c, p), behind |-> Len(pending)]>>
    /\ UNCHANGED <<modal, rendered, settled, everShown>>
    /\ UNCHANGED jokeVars

\* A consumer calls popupManager.hide().
invokeHide ==
    /\ Len(pending) < MaxPending
    /\ pending' = Append(pending, HideCall)
    /\ lastIssued' = <<[call |-> HideCall, behind |-> Len(pending)]>>
    /\ UNCHANGED <<modal, rendered, settled, everShown>>
    /\ UNCHANGED jokeVars

\* The oldest call in flight runs: its body writes the signal, the component
\* subscribed to the signal renders again, and the call's promise resolves.
settle ==
    /\ pending # <<>>
    /\ LET call == Head(pending) IN
         /\ IF call.op = "show" THEN show(call.Component, call.props) ELSE hide
         /\ rendered' = Render(modal')
         /\ settled' = Append(IF Len(settled) < HistLen THEN settled ELSE Tail(settled), call)
         /\ everShown' = (everShown \/ call.op = "show")
    /\ pending' = Tail(pending)
    /\ UNCHANGED lastIssued
    /\ UNCHANGED jokeVars

\* Faulty variant of rerender: rendering consumes the popup.
rerender_reset ==
    /\ modal' = Undefined
    /\ rendered' = Render(modal)
    /\ UNCHANGED <<pending, lastIssued, settled, everShown>>
    /\ UNCHANGED jokeVars

\* The component function runs again without a signal write.
rerender ==
    /\ rendered' = Render(modal)
    /\ UNCHANGED <<modal, pending, lastIssued, settled, everShown>>
    /\ UNCHANGED jokeVars

----------------------------------------------------------------------------
(* The joke command: values. *)

\* Strings are sequences of characters.
WhiteSpace == {" ", "\t", "\n"}

\* The marker runJokeCommand hands to note (the code point of the glyph).
Glyph == "U+1F648"

\* Joke entries, [setup, punchline], both parts non-empty, some with white
\* space around a part and one with white space inside it.
JokePool ==
    { << <<"Q", "1", "?">>, <<"A", "1">> >>,
      << <<" ", "Q", " ", "2", "?">>, <<"A", "2", "\n">> >>,
      << <<"Q", "1", "?", " ">>, <<"\t", "A", "3">> >> }

\* The non-empty lists of at most n entries.
JokeLists(n) == UNION { [1..k -> JokePool] : k \in 1..n }

\* String.prototype.trim: white space and line terminators go at both ends.
RECURSIVE trimStart(_)
trimStart(s) == IF s # <<>> /\ Head(s) \in WhiteSpace THEN trimStart(Tail(s)) ELSE s

RECURSIVE trimEnd(_)
trimEnd(s) ==
    IF s # <<>> /\ s[Len(s)] \in WhiteSpace THEN trimEnd(SubSeq(s, 1, Len(s) - 1)) ELSE s

\* Faulty variant of trim: only the start is trimmed.
trim_startOnly(s) == trimStart(s)

trim(s) == trimEnd(trimStart(s))

\* kleur's magenta: the text, marked with the colour.
magenta(s) == [color |-> "magenta", text |-> s]

\* note(message, title): one note, made of a title and a message.
note(message, title) == [title |-> title, message |-> message]

\* getRandomJoke: the indices Math.floor(Math.random() * jokes.length) can
\* give, shifted to the 1-based positions of the list.
getRandomJoke(js) == DOMAIN js

----------------------------------------------------------------------------
(* The joke command: operations. *)

JokeIdle ==
    /\ stdout = <<>>
    /\ jokeStatus = "idle"
    /\ returned = {}
    /\ printed = {}

\* Faulty variant of runJokeCommand: the first entry of the list is printed
\* whatever entry getRandomJoke returned.
runJokeCommand_first(i) ==
    /\ i \in getRandomJoke(jokes)
    /\ LET n == note(magenta(trim(jokes[1][1]) \o <<"\n">> \o trim(jokes[1][2])), Glyph)
       IN /\ stdout' = <<n>>
          /\ printed' = printed \cup {n}
          /\ jokeStatus' = "resolved"
    /\ returned' = returned \cup {i}
    /\ UNCHANGED jokes
    /\ UNCHANGED popupVars

\* One call of runJokeCommand in which getRandomJoke returns entry i. The call
\* rejects, having written nothing, when a part is undefined (x!.trim()).
runJokeCommand(i) ==
    /\ i \in getRandomJoke(jokes)
    /\ LET joke == jokes[i] IN
         IF Len(joke) >= 2
         THEN LET setup == joke[1]
                  punchline == joke[2]
                  n == note(magenta(trim(setup) \o <<"\n">> \o trim(punchline)), Glyph)
              IN /\ stdout' = <<n>>
                 /\ printed' = printed \cup {n}
                 /\ jokeStatus' = "resolved"
         ELSE /\ stdout' = <<>>
              /\ printed' = printed
              /\ jokeStatus' = "rejected"
    /\ returned' = returned \cup {i}
    /\ UNCHANGED jokes
    /\ UNCHANGED popupVars

----------------------------------------------------------------------------
(* Specifications. *)

\* The page with a PopupManager; the joke command is not part of it.
Init == PopupInit /\ JokeIdle /\ jokes = <<>>

Next ==
    \/ \E c \in Components, p \in PropBags : invokeShow(c, p)
    \/ invokeHide
    \/ settle
    \/ rerender

Spec == Init /\ [][Next]_vars

\* The command line with the joke command, over every joke list of the bound.
JokeInit == PopupInit /\ JokeIdle /\ jokes \in JokeLists(MaxJokes)

JokeNext == \E i \in 1..MaxJokes : runJokeCommand(i)

JokeSpec == JokeInit /\ [][JokeNext]_vars

\* Math.random is uniform: under repeated invocation no index that
\* getRandomJoke can give is starved for ever.
JokeFairSpec == JokeSpec /\ \A i \in 1..MaxJokes : WF_vars(runJokeCommand(i))

----------------------------------------------------------------------------
(* Reading the rendered output. *)

Last(h) == h[Len(h)]

\* The positions of the overlay elements of a fragment.
Overlays(r) == {i \in DOMAIN r : r[i].tag = "div" /\ r[i].class = "modal"}

\* The positions of the slotted page content.
Slots(r) == {i \in DOMAIN r : r[i].tag = "Slot"}

\* The positions <<i, j>> of the component instances of a fragment: child j of
\* element i, or element i itself when j = 0.
PopupInstances(r) ==
    {<<i, 0>> : i \in {k \in DOMAIN r : r[k].tag \in Components}}
        \cup UNION { {<<i, j>> : j \in {k \in DOMAIN r[i].children :
                                          r[i].children[k].tag \in Components}}
                     : i \in DOMAIN r }

InstanceAt(r, pos) == IF pos[2] = 0 THEN r[pos[1]] ELSE r[pos[1]].children[pos[2]]

\* The fragment shows exactly one component instance: c, invoked with exactly p.
ShowsExactly(r, c, p) ==
    /\ Cardinality(PopupInstances(r)) = 1
    /\ \A pos \in PopupInstances(r) :
         /\ InstanceAt(r, pos).tag = c
         /\ InstanceAt(r, pos).props = p

\* The step in which the oldest call in flight runs.
SettleStep == pending # <<>> /\ pending' = Tail(pending)

----------------------------------------------------------------------------
(* Claims about the popup manager, checked under Spec. *)

\* C1: once show(C, P) has completed, from an empty or a showing holder, the
\* popup state is exactly the pair (C, P) and the rendered output holds
\* exactly one instance of C, invoked with exactly P.
C1_ShowSetsExactlyThePair ==
    (settled # <<>> /\ Last(settled).op = "show") =>
        /\ modal = {Popup(Last(settled).Component, Last(settled).props)}
        /\ ShowsExactly(rendered, Last(settled).Component, Last(settled).props)

\* C1 witness: a show with the one-key bag completed over a popup that was
\* showing the two-key bag.
C1_Witness ==
    /\ Len(settled) >= 2
    /\ settled[Len(settled) - 1].op = "show"
    /\ settled[Len(settled) - 1].props = {<<"salutation", "Hello">>, <<"name", "World">>}
    /\ Last(settled) = ShowCall("OtherPopup", {<<"salutation", "Bye">>})
    /\ modal = {Popup("OtherPopup", {<<"salutation", "Bye">>})}

\* C2: show over a shown popup replaces it (last writer wins, nothing is
\* queued or stacked): after two shows only the second pair is active, one
\* hide after them empties the holder, and a pair is active only while the
\* call that completed last is the show of that pair.
C2_LastWriterWins ==
    /\ (/\ Len(settled) >= 2
        /\ settled[Len(settled) - 1].op = "show"
        /\ Last(settled).op = "show")
         => /\ modal = {Popup(Last(settled).Component, Last(settled).props)}
            /\ ShowsExactly(rendered, Last(settled).Component, Last(settled).props)
    /\ (/\ Len(settled) >= 3
        /\ settled[Len(settled) - 2].op = "show"
        /\ settled[Len(settled) - 1].op = "show"
        /\ Last(settled).op = "hide")
         => /\ modal = Undefined
            /\ PopupInstances(rendered) = {}
    /\ \A x \in modal :
         /\ settled # <<>>
         /\ Last(settled) = ShowCall(x.Component, x.props)

\* C2 witness: two different shows and then one hide have completed, and the
\* holder is empty.
C2_Witness ==
    /\ Len(settled) = 3
    /\ settled[1].op = "show"
    /\ settled[2].op = "show"
    /\ settled[1] # settled[2]
    /\ settled[3].op = "hide"
    /\ modal = Undefined

\* C3: after shows followed by hide, the popup state is absent and the
\* rendered output holds no overlay and no component instance.
C3_HideClears ==
    (settled # <<>> /\ Last(settled).op = "hide") =>
        /\ modal = Undefined
        /\ Overlays(rendered) = {}
        /\ PopupInstances(rendered) = {}

\* C3 witness: a hide completed right after a show.
C3_Witness ==
    /\ Len(settled) = 2
    /\ settled[1].op = "show"
    /\ settled[2].op = "hide"
    /\ Overlays(rendered) = {}

\* C4: hide is idempotent: a hide that runs on an empty holder, or right after
\* another hide, leaves the popup state and the rendered output as they were,
\* empty.
C4_HideIdempotent ==
    [][(/\ SettleStep
        /\ Head(pending).op = "hide"
        /\ (modal = Undefined \/ (settled # <<>> /\ Last(settled).op = "hide")))
         => /\ modal' = modal
            /\ rendered' = rendered
            /\ modal' = Undefined
            /\ PopupInstances(rendered') = {}]_vars

\* C4 witness: a show and then two hides in a row have completed.
C4_Witness ==
    /\ Len(settled) = 3
    /\ settled[1].op = "show"
    /\ settled[2].op = "hide"
    /\ settled[3].op = "hide"
    /\ modal = Undefined
    /\ PopupInstances(rendered) = {}

\* C5: at most one popup is active: the holder is empty or holds exactly one
\* (component, props) pair, and the rendered output never holds more than one
\* overlay or more than one popup instance.
C5_AtMostOnePopup ==
    /\ modal \subseteq [Component : Components, props : PropBags]
    /\ Cardinality(modal) <= 1
    /\ Cardinality(Overlays(rendered)) <= 1
    /\ Cardinality(PopupInstances(rendered)) <= 1

\* C5 witness: three shows, no two of the same pair, have completed and one
\* popup is active.
C5_Witness ==
    /\ Len(settled) = 3
    /\ \A i \in 1..3 : settled[i].op = "show"
    /\ settled[1] # settled[2]
    /\ settled[2] # settled[3]
    /\ settled[1] # settled[3]
    /\ Cardinality(modal) = 1
    /\ Cardinality(PopupInstances(rendered)) = 1

\* The popup state a call leaves behind.
EffectOf(call) ==
    IF call.op = "show" THEN {Popup(call.Component, call.props)} ELSE Undefined

C9_OnlyShowAndHideWrite ==
    /\ modal = Undefined
    /\ PopupInstances(rendered) = {}
    /\ [][/\ modal' # modal => SettleStep
          /\ ~everShown' => (modal' = Undefined /\ PopupInstances(rendered') = {})]_vars

\* C9 witness: a hide has completed, no show has, and nothing is shown.
C9_Witness ==
    /\ ~everShown
    /\ settled # <<>>
    /\ modal = Undefined
    /\ PopupInstances(rendered) = {}

\* C10: the rendered output corresponds to the popup state: the overlay is
\* there exactly when a popup is active and then wraps exactly the active
\* component with its props, and the slotted content is rendered once in
\* both states, with nothing else beside them.
C10_ViewMatchesState ==
    /\ Cardinality(Slots(rendered)) = 1
    /\ (Overlays(rendered) # {}) <=> (modal # Undefined)
    /\ Len(rendered) = 1 + Cardinality(Overlays(rendered))
    /\ \A i \in Overlays(rendered) :
         /\ Len(rendered[i].children) = 1
         /\ \E x \in modal :
              /\ rendered[i].children[1].tag = x.Component
              /\ rendered[i].children[1].props = x.props
    /\ \A pos \in PopupInstances(rendered) : pos[1] \in Overlays(rendered) /\ pos[2] = 1

\* C10 witness: a popup is active while a hide is in flight, and the overlay
\* follows the slotted content.
C10_Witness ==
    /\ modal = {Popup("PopupExample", {<<"salutation", "Hello">>, <<"name", "World">>})}
    /\ pending = <<HideCall>>
    /\ Slots(rendered) = {1}
    /\ Overlays(rendered) = {2}

----------------------------------------------------------------------------
(* Claims about the joke command, checked under JokeSpec and JokeFairSpec. *)

\* t is s without the white space at its two ends, stated without trim.
IsTrimmedOf(t, s) ==
    /\ t # <<>> => (t[1] \notin WhiteSpace /\ t[Len(t)] \notin WhiteSpace)
    /\ \E a \in 0..Len(s) :
         /\ a + Len(t) <= Len(s)
         /\ \A k \in 1..Len(s) :
              IF k <= a \/ k > a + Len(t) THEN s[k] \in WhiteSpace ELSE s[k] = t[k - a]

\* text is the trimmed setup of joke, one newline, and its trimmed punchline.
IsBodyOf(text, joke) ==
    \E k \in 1..Len(text) :
        /\ text[k] = "\n"
        /\ IsTrimmedOf(SubSeq(text, 1, k - 1), joke[1])
        /\ IsTrimmedOf(SubSeq(text, k + 1, Len(text)), joke[2])

\* The lines of a text: one more than its newlines.
Lines(text) == 1 + Cardinality({k \in 1..Len(text) : text[k] = "\n"})

\* C7: every call of runJokeCommand succeeds and writes exactly one note: its
\* marker is the fixed glyph and its body is two lines, the trimmed setup and
\* the trimmed punchline of one single entry of the list, which getRandomJoke
\* returned; with a one-entry list that is the entry.
C7_OneNoteOfOneEntry ==
    jokeStatus # "idle" =>
        /\ jokeStatus = "resolved"
        /\ Len(stdout) = 1
        /\ stdout[1].title = Glyph
        /\ Lines(stdout[1].message.text) = 2
        /\ \E i \in returned : IsBodyOf(stdout[1].message.text, jokes[i])
        /\ Len(jokes) = 1 => IsBodyOf(stdout[1].message.text, jokes[1])

\* C7 witness: the list holds two different entries, and the note written
\* last is that of an entry with white space around both of its parts.
C7_Witness ==
    /\ jokeStatus = "resolved"
    /\ Len(jokes) = 2
    /\ jokes[1] # jokes[2]
    /\ \E i \in returned :
         /\ Head(jokes[i][1]) \in WhiteSpace
         /\ Last(jokes[i][2]) \in WhiteSpace
         /\ IsBodyOf(stdout[1].message.text, jokes[i])

\* C8: no entry of the list is unreachable: under repeated fair invocation
\* every entry is eventually returned by getRandomJoke and its note printed.
C8_EveryEntryEventuallyPrinted ==
    \A i \in 1..MaxJokes :
        <>(i \in DOMAIN jokes =>
             /\ i \in returned
             /\ \E n \in printed : n.title = Glyph /\ IsBodyOf(n.message.text, jokes[i]))

\* C8 witness: every entry of a list of three different entries has been
\* returned and three notes have been printed.
C8_Witness ==
    /\ Len(jokes) = 3
    /\ Cardinality({jokes[i] : i \in DOMAIN jokes}) = 3
    /\ returned = DOMAIN jokes
    /\ Cardinality(printed) = 3

=============================================================================
